---- MODULE Spec2Model ----
(***************************************************************************)
(* Model of the oh-procd supervision engine: the Registry                  *)
(* (src/process/registry.rs), the per-child supervisor task                *)
(* (src/process/supervisor.rs), the binary-change watcher and the HTTP     *)
(* control handlers (src/api/handlers.rs).                                 *)
(*                                                                         *)
(* Time is discrete: one tick is half a second (Second == 2), so that an   *)
(* iteration shorter than one second but longer than zero is a state.      *)
(***************************************************************************)
EXTENDS Integers, Sequences, FiniteSets, TLC

\* ---------------------------------------------------------------- bounds
MaxTime == 3
MaxTasks == 2
MaxPids == 2
MaxFails == 1
MaxEvents == 2
MaxSenders == 3
MaxAuthTime == 3   \* the auth layer's clock runs from 0 to MaxAuthTime minutes
MaxRequests == 11  \* requests of one client that fail or are in flight, in a run
MaxOther == 1      \* the same, for the other client
MaxInFlight == 2   \* requests inside basic_auth at the same time
MaxHour == 2       \* the logger's clock runs through the hours 0..MaxHour
MaxBytes == 4      \* bytes a child writes to its pipe in a run
MaxIoErrors == 2   \* I/O errors the logger meets in a run
MaxLaunches == 2   \* spawns of the one child whose command line is looked at

\* ------------------------------------------------------ program constants
Second == 2
\* restart_delay, the watcher's interval: the smallest that enables it
RestartDelay == Second
Capacity == 8

\* Option::None of a duration, of a timestamp and of an mtime
NoDur == -1
NoTime == -1
NoMtime == -1

Names == {"a"}
Unknown == "zz"

\* tokio::time::sleep(Duration::from_secs(u64::MAX)): a deadline no clock reaches
Never == MaxTime + 100

\* ProcessConfig: the fields the supervision engine reads
\* cmd_abs_path: whether cmd resolves to an absolute path of an executable
Config(max_run, next) ==
  [max_run |-> max_run, next |-> next, enable |-> TRUE, cmd_abs_path |-> TRUE]
\* enable = false in the configuration file
Disabled(c) == [c EXCEPT !.enable = FALSE]
\* a cmd that resolves to no absolute path
NoAbsPath(c) == [c EXCEPT !.cmd_abs_path = FALSE]
Cfgs ==
  { Config(NoDur, NoDur), Config(NoDur, 1), Config(0, NoDur), Config(2, 1),
    Disabled(Config(NoDur, NoDur)), NoAbsPath(Config(NoDur, NoDur)) }

ExitCodes == {0}

VARIABLES
  now,        \* the clock (Local::now / Instant::now), in ticks
  cfg,        \* name -> ProcessConfig, immutable after load
  reg,        \* Registry.inner: name -> ProcessEntry
  poisoned,   \* the Registry mutex is poisoned (a panic while it was held)
  task,       \* supervisor tasks, in spawn order: locals and position
  inbox,      \* per task, the mpsc channel behind its control_tx
  pend,       \* HTTP handlers suspended in tx.send(msg).await
  os,         \* child processes ever spawned, by pid
  mtime,      \* name with an absolute path -> current mtime of the executable
              \* on disk (NoMtime: the metadata cannot be read)
  watcher,    \* the watcher task: the deadline of its sleep
  wsnap,      \* the watcher task inside a sweep: the names it has yet to visit
              \* and the entry that find has just cloned for it
  budget,     \* remaining spawn failures and external events (requests, file changes)
  hist,       \* history: per name, set_running calls, Error and Killed transitions
  ev,         \* history: what the last step did
  auth,       \* the HTTP auth layer: AuthState.failed and the requests inside basic_auth
  plog,       \* one pipe_logger thread, its output directory, and the hour of the day
  launch      \* one ProcessConfig as loaded, and the Command spawn_process built from it

vars == <<now, cfg, reg, poisoned, task, inbox, pend, os, mtime, watcher, wsnap, budget,
          hist, ev, auth, plog, launch>>

\* the state of the supervision engine, and the three components that the
\* engine's steps do not touch
engine ==
  <<cfg, reg, poisoned, task, inbox, pend, os, mtime, watcher, wsnap, budget, hist>>

\* ---------------------------------------------------------------- values
ProcState(tag, arg) == [tag |-> tag, arg |-> arg]
Ready == ProcState("Ready", 0)
Running == ProcState("Running", 0)
Stopping == ProcState("Stopping", 0)
Stopped == ProcState("Stopped", 0)
Killed == ProcState("Killed", 0)
Exited(code) == ProcState("Exited", code)
Error(msg) == ProcState("Error", msg)

Tasks == 1..Len(task)
Pids == 1..Len(os)

Event(t, act, call, name, st) ==
  [t |-> t, act |-> act, call |-> call, name |-> name, st |-> st]

\* ------------------------------------------------------------- Registry
\* ProcessEntry::get_cmd_mtime: the mtime of cmd_abs_path, None when there is
\* no absolute path
get_cmd_mtime(name) ==
  IF name \in DOMAIN mtime THEN mtime[name] ELSE NoMtime

\* register_process that counts the registration as a start
register_process_counted(r, name, tx) ==
  IF name \in DOMAIN r
  THEN [r EXCEPT ![name].control_tx = tx]
  ELSE [n \in (DOMAIN r) \cup {name} |->
          IF n = name
          THEN [ index |-> Cardinality(DOMAIN r) + 1,
                 state |-> Ready,
                 pid |-> 0,
                 control_tx |-> tx,
                 start_time |-> NoTime,
                 start_count |-> 1,
                 exit_time |-> NoTime,
                 last_modified |-> get_cmd_mtime(name) ]
          ELSE r[n]]

\* register_process that rebuilds the entry of a name that is already there
register_process_rebuild(r, name, tx) ==
  [n \in (DOMAIN r) \cup {name} |->
     IF n = name
     THEN [ index |-> Cardinality(DOMAIN r) + 1,
            state |-> Ready,
            pid |-> 0,
            control_tx |-> tx,
            start_time |-> NoTime,
            start_count |-> 0,
            exit_time |-> NoTime,
            last_modified |-> get_cmd_mtime(name) ]
     ELSE r[n]]

\* register_process that, for a name that is already there, also puts the
\* entry back to its initial values
register_process_reset(r, name, tx) ==
  IF name \in DOMAIN r
  THEN [r EXCEPT ![name].control_tx = tx,
                 ![name].state = Ready,
                 ![name].pid = 0,
                 ![name].start_time = NoTime,
                 ![name].last_modified = get_cmd_mtime(name)]
  ELSE register_process_rebuild(r, name, tx)

\* Registry::register_process
register_process(r, name, tx) ==
  IF name \in DOMAIN r
  THEN [r EXCEPT ![name].control_tx = tx]
  ELSE [n \in (DOMAIN r) \cup {name} |->
          IF n = name
          THEN [ index |-> Cardinality(DOMAIN r) + 1,
                 state |-> Ready,
                 pid |-> 0,
                 control_tx |-> tx,
                 start_time |-> NoTime,
                 start_count |-> 0,
                 exit_time |-> NoTime,
                 last_modified |-> get_cmd_mtime(name) ]
          ELSE r[n]]

\* set_state that forgets to count an Error transition
set_state_no_count(r, name, state) ==
  [r EXCEPT
     ![name].state = state,
     ![name].exit_time =
        IF state.tag \in {"Stopped", "Killed", "Exited", "Error"} THEN now ELSE @]

\* set_state whose list of exit states misses Killed
set_state_no_killed_time(r, name, state) ==
  [r EXCEPT
     ![name].state = state,
     ![name].exit_time =
        IF state.tag \in {"Stopped", "Exited", "Error"} THEN now ELSE @,
     ![name].start_count =
        IF state.tag = "Error" THEN @ + 1 ELSE @]

\* set_state that clears the pid when the state is one a generation ends in
set_state_reset_pid(r, name, state) ==
  [r EXCEPT
     ![name].state = state,
     ![name].pid =
        IF state.tag \in {"Stopped", "Killed", "Exited", "Error"} THEN 0 ELSE @,
     ![name].exit_time =
        IF state.tag \in {"Stopped", "Killed", "Exited", "Error"} THEN now ELSE @,
     ![name].start_count =
        IF state.tag = "Error" THEN @ + 1 ELSE @]

\* Registry::set_state, for a name that is present
set_state(r, name, state) ==
  [r EXCEPT
     ![name].state = state,
     ![name].exit_time =
        IF state.tag \in {"Stopped", "Killed", "Exited", "Error"} THEN now ELSE @,
     ![name].start_count =
        IF state.tag = "Error" THEN @ + 1 ELSE @]

\* Registry::list: the entries sorted by index (sort_by_key over the map's
\* iteration order, which is arbitrary)
RECURSIVE list_sorted(_, _)
list_sorted(r, names) ==
  IF names = {} THEN << >>
  ELSE LET n == CHOOSE x \in names : \A y \in names : r[x].index <= r[y].index
       IN << [name |-> n, index |-> r[n].index, state |-> r[n].state, pid |-> r[n].pid] >>
            \o list_sorted(r, names \ {n})

list(r) == list_sorted(r, DOMAIN r)

\* Registry::set_running, for a name that is present
set_running(r, name, pid) ==
  [r EXCEPT
     ![name].state = Running,
     ![name].pid = pid,
     ![name].start_time = now,
     ![name].start_count = @ + 1,
     ![name].last_modified = get_cmd_mtime(name)]

\* Registry::get_control: the task whose inbox the entry's sender feeds
get_control(name) == reg[name].control_tx

\* A Registry method can run: the mutex is not poisoned.  lock().unwrap()
\* panics on a poisoned mutex, set_state / set_running panic on a missing name
\* while holding the lock, which poisons it.
CanLock == ~poisoned


\* ------------------------------------------------------------- processes
\* kill_process (supervisor.rs): pid 0 is a no-op; otherwise SIGKILL is sent
\* and the call returns without waiting for the process to die
kill_process(o, pid) ==
  IF pid = 0 THEN o
  ELSE IF o[pid].st = "alive" THEN [o EXCEPT ![pid].st = "signalled"]
  ELSE o

\* the receiving half of a task's control channel has been dropped
Closed(t) == task[t].pc \in {"done", "panicked"}

\* a control message as it enters task t's inbox; sent_gen and sent_pc are
\* history: where task t is at that moment, and the
\* generation of t that is running in its select at that moment (0: none);
\* seen is history too: the pid in the entry on which the watcher decided to
\* send (0: the message is not the watcher's)
ControlMsg(kind, t) ==
  [kind |-> kind,
   sent_gen |-> IF task[t].pc \in {"spawned", "select"} THEN task[t].gen ELSE 0,
   sent_pc |-> task[t].pc,
   seen |-> 0]

\* ------------------------------------------------------------ HTTP auth
\* auth.rs 23-24.  The auth layer's clock counts minutes.
FAILURE_WINDOW == 2
MAX_FAILURES == 10

IPs == {"x", "y"}
\* what the Authorization header of a request comes to (auth.rs 77-95): the
\* configured pair, or anything else (another pair, no usable header)
Credentials == {"good", "wrong"}

\* AuthState::new, with no request in flight
AuthNew == [configured |-> FALSE, failed |-> << >>, reqs |-> << >>]

\* Vec::retain(|t| now.duration_since(*t) <= FAILURE_WINDOW)
retain(times, at) == SelectSeq(times, LAMBDA t : at - t <= FAILURE_WINDOW)

\* a ban check that lets the tenth failure pass
ban_check_above(f, ip, at) ==
  IF ip \in DOMAIN f
  THEN LET kept == retain(f[ip], at) IN
       [failed |-> [f EXCEPT ![ip] = kept], forbidden |-> Len(kept) > MAX_FAILURES]
  ELSE [failed |-> f, forbidden |-> FALSE]

\* basic_auth, the ban check (auth.rs 64-75): prune the IP's list, then compare
\* its length
ban_check(f, ip, at) ==
  IF ip \in DOMAIN f
  THEN LET kept == retain(f[ip], at) IN
       [failed |-> [f EXCEPT ![ip] = kept], forbidden |-> Len(kept) >= MAX_FAILURES]
  ELSE [failed |-> f, forbidden |-> FALSE]

\* basic_auth, the credential check (auth.rs 77-95)
authorized(creds) == creds = "good"

\* basic_auth, recording a failure (auth.rs 102-112)
record_failure(f, ip, at) ==
  IF ip \in DOMAIN f
  THEN [f EXCEPT ![ip] = Append(retain(@, at), at)]
  ELSE [x \in (DOMAIN f) \cup {ip} |-> IF x = ip THEN << at >> ELSE f[x]]

\* cleanup_task, one round (auth.rs 39-43)
cleanup(f, at) ==
  LET kept == [ip \in DOMAIN f |-> retain(f[ip], at)] IN
  [ip \in { x \in DOMAIN f : kept[x] # << >> } |-> kept[ip]]

\* ----------------------------------------------------------- pipe logger
NoFile == -1

\* no logger thread: the child's output is not redirected
NoLogger ==
  [ pc |-> "none", hour |-> 0, dir |-> FALSE, files |-> << >>, before |-> << >>,
    file |-> NoFile, active_hour |-> 0, read |-> << >>, at |-> << >>, errs |-> 0,
    last |-> [read |-> "", mkdir |-> "", open |-> "", write |-> ""] ]

\* the n bytes a read returns: a byte is the number of its place in the stream
Chunk(l, n) == [i \in 1..n |-> Len(l.read) + i]

\* a logger that opens the hour's file only when it has none open
need_rotate_never(hour, active_hour) ==
  FALSE

\* logger.rs 48
need_rotate(hour, active_hour) ==
  hour # active_hour

\* a logger that keeps the handle on which a write has failed
write_failed_keep(l) ==
  l

\* logger.rs 70-73: the write failed, the handle is dropped
write_failed(l) ==
  [l EXCEPT !.file = NoFile]

\* OpenOptions::new().create(true).append(true).open(path) succeeded
\* (logger.rs 54-62): the file is there, with what it held, and is the open one
opened(l, hour) ==
  [l EXCEPT
     !.file = hour,
     !.files = IF hour \in DOMAIN @ THEN @
               ELSE [h \in (DOMAIN @) \cup {hour} |-> IF h = hour THEN << >> ELSE @[h]]]

\* one iteration of the loop after a read of n > 0 bytes (logger.rs 35-74).
\* mk, op: create_dir_all / open succeed when called; wr: the bytes written
\* before write_all returned (all n: it succeeded).  read, at and last are
\* history: the bytes read, the hour each was handled in, what the iteration did
pipe_logger_iter(l, n, mk, op, wr) ==
  LET chunk == Chunk(l, n)
      l1 == [l EXCEPT !.read = @ \o chunk, !.at = @ \o [i \in 1..n |-> l.hour]]
  IN
  IF ~l.dir /\ ~mk
  THEN [l1 EXCEPT !.errs = @ + 1,
                  !.last = [read |-> "ok", mkdir |-> "err", open |-> "", write |-> ""]]
  ELSE
    LET hour == l.hour
        opening == hour \notin DOMAIN l.files
                     \/ need_rotate(hour, l.active_hour)
                     \/ l.file = NoFile
        l2 == [l1 EXCEPT !.dir = TRUE, !.active_hour = hour]
        l3 == IF opening /\ op THEN opened(l2, hour) ELSE l2
        writing == l3.file # NoFile
        l4 == IF ~writing THEN l3
              ELSE LET l5 == [l3 EXCEPT !.files[l3.file] = @ \o SubSeq(chunk, 1, wr)]
                   IN IF wr = n THEN l5 ELSE write_failed(l5)
    IN [l4 EXCEPT
          !.errs = @ + (IF opening /\ ~op THEN 1 ELSE 0)
                     + (IF writing /\ wr < n THEN 1 ELSE 0),
          !.last = [ read |-> "ok",
                     mkdir |-> IF l.dir THEN "" ELSE "ok",
                     open |-> IF ~opening THEN "" ELSE IF op THEN "ok" ELSE "err",
                     write |-> IF ~writing THEN "" ELSE IF wr = n THEN "ok" ELSE "err" ]]

\* ------------------------------------------------------- command line
\* A token of a command line is a sequence of pieces; the piece PH is the
\* text {Process-Home}.
PH == "{Process-Home}"
CurrentDir == "/cwd"
Inherit == ""

\* str::contains / str::replace for the placeholder (config.rs 244-245)
contains(tok) == \E i \in 1..Len(tok) : tok[i] = PH
replace(tok, dir) == [i \in 1..Len(tok) |-> IF tok[i] = PH THEN dir ELSE tok[i]]

\* ProcessConfig::get_cmd (config.rs 230-265): the program, its arguments,
\* the working directory set on the Command (Inherit: none set), NO_COLOR
get_cmd(pc) ==
  LET args == pc.sandbox \o << pc.cmd >> \o pc.args
      app_home == IF pc.home # "" THEN pc.home ELSE CurrentDir
      has_replace == \E i \in 1..Len(args) : contains(args[i])
      replaced == [i \in 1..Len(args) |->
                     IF contains(args[i]) THEN replace(args[i], app_home) ELSE args[i]]
  IN [ program |-> replaced[1],
       args |-> Tail(replaced),
       dir |-> IF ~has_replace /\ pc.home # "" THEN pc.home ELSE Inherit,
       no_color |-> TRUE ]

\* spawn_process, the Command it builds (supervisor.rs 47-57)
spawn_process(pc) ==
  [ program |-> pc.cmd,
    args |-> pc.args,
    dir |-> IF pc.home # "" THEN pc.home ELSE Inherit,
    no_color |-> FALSE ]

\* the argv the launched program sees
argv(command) == << command.program >> \o command.args

NoCommand == << >>
NoLaunch == [pcfg |-> << >>, spawned |-> 0, command |-> NoCommand]


\* the watcher is not inside a sweep
NoSnap == [todo |-> {}, name |-> "", pe |-> << >>]

\* ----------------------------------------------------------------- Init
NewTask(name) ==
  [ name |-> name, pc |-> "init", pid |-> 0, gen |-> 0,
    start_time |-> NoTime, timer |-> 0, wake |-> 0, exit_rx |-> <<>> ]

Init ==
  /\ now = 0
  /\ cfg \in [Names -> Cfgs]
  /\ reg = << >>
  /\ poisoned = FALSE
  /\ task = << NewTask(CHOOSE n \in Names : TRUE) >>
  /\ inbox = << << >> >>
  /\ pend = {}
  /\ os = << >>
  /\ mtime = [n \in { x \in Names : cfg[x].cmd_abs_path } |-> 0]
  /\ watcher = RestartDelay
  /\ wsnap = NoSnap
  /\ budget = [fails |-> MaxFails, events |-> MaxEvents]
  /\ hist = [n \in Names |-> [set_running |-> 0, error |-> 0, killed |-> FALSE]]
  /\ ev = Event(0, "init", "none", "", "")
  /\ auth = AuthNew /\ plog = NoLogger /\ launch = NoLaunch

\* ------------------------------------------------------ supervisor task
\* a loop without the respawn floor
respawn_floor_none(tk) == [tk EXCEPT !.pc = "loop"]

\* the 1-second respawn floor at the end of an iteration (supervisor.rs 236-240)
respawn_floor(tk) ==
  IF now - tk.start_time < Second
  THEN [tk EXCEPT !.pc = "floor_sleep", !.wake = now + Second]
  ELSE [tk EXCEPT !.pc = "loop"]

\* the wait_next closure (supervisor.rs 159-163), then what follows the select
wait_next(tk) ==
  IF cfg[tk.name].next # NoDur
  THEN [tk EXCEPT !.pc = "next_sleep", !.wake = now + cfg[tk.name].next]
  ELSE respawn_floor(tk)

\* the max-run timer of a generation (supervisor.rs 192-197)
max_run_fut(name) ==
  IF cfg[name].max_run # NoDur THEN now + cfg[name].max_run ELSE Never

\* leaving the select: the generation's locals go out of scope
EndGen(tk) == [tk EXCEPT !.pid = 0, !.timer = 0, !.exit_rx = << >>]

Panicked(tk) ==
  [tk EXCEPT !.pc = "panicked", !.pid = 0, !.timer = 0, !.wake = 0, !.exit_rx = << >>]

\* supervise, first lines: create the channel and register
Register(t) ==
  /\ task[t].pc = "init"
  /\ IF CanLock
     THEN /\ reg' = register_process(reg, task[t].name, t)
          /\ task' = [task EXCEPT ![t].pc = "loop"]
          /\ inbox' = inbox
          /\ ev' = Event(t, "register", "register_process", task[t].name, "")
     ELSE /\ reg' = reg
          /\ task' = [task EXCEPT ![t] = Panicked(@)]
          /\ inbox' = [inbox EXCEPT ![t] = << >>]
          /\ ev' = Event(t, "register", "panic", task[t].name, "")
  /\ UNCHANGED <<now, cfg, poisoned, pend, os, mtime, budget, hist, watcher, wsnap, auth, plog, launch>>

\* a supervisor that gives up on a failed spawn: Error, then return
SpawnFailReturn(t) ==
  /\ task[t].pc = "loop"
  /\ budget.fails > 0
  /\ budget' = [budget EXCEPT !.fails = @ - 1]
  /\ IF CanLock
     THEN /\ reg' = set_state(reg, task[t].name, Error(0))
          /\ hist' = [hist EXCEPT ![task[t].name].error = @ + 1]
          /\ task' = [task EXCEPT ![t].start_time = now, ![t].pc = "done"]
          /\ ev' = Event(t, "spawn_fail", "set_state", task[t].name, "Error")
     ELSE /\ reg' = reg
          /\ hist' = hist
          /\ task' = [task EXCEPT ![t] = Panicked([@ EXCEPT !.start_time = now])]
          /\ ev' = Event(t, "spawn_fail", "panic", task[t].name, "Error")
  /\ inbox' = [inbox EXCEPT ![t] = << >>]
  /\ UNCHANGED <<now, cfg, poisoned, pend, os, mtime, watcher, wsnap, auth, plog, launch>>

\* loop head: spawn_process fails; Error, then a 1-second sleep
SpawnFail(t) ==
  /\ task[t].pc = "loop"
  /\ budget.fails > 0
  /\ budget' = [budget EXCEPT !.fails = @ - 1]
  /\ IF CanLock
     THEN /\ reg' = set_state(reg, task[t].name, Error(0))
          /\ hist' = [hist EXCEPT ![task[t].name].error = @ + 1]
          /\ task' = [task EXCEPT ![t].start_time = now,
                                  ![t].pc = "retry_sleep",
                                  ![t].wake = now + Second]
          /\ inbox' = inbox
          /\ ev' = Event(t, "spawn_fail", "set_state", task[t].name, "Error")
     ELSE /\ reg' = reg
          /\ hist' = hist
          /\ task' = [task EXCEPT ![t] = Panicked([@ EXCEPT !.start_time = now])]
          /\ inbox' = [inbox EXCEPT ![t] = << >>]
          /\ ev' = Event(t, "spawn_fail", "panic", task[t].name, "Error")
  /\ UNCHANGED <<now, cfg, poisoned, pend, os, mtime, watcher, wsnap, auth, plog, launch>>

\* loop head: spawn_process succeeds (supervisor.rs 166-177).  The child runs
\* the executable as it is on disk at this moment (binary, history).
SpawnOk(t) ==
  /\ task[t].pc = "loop"
  /\ Len(os) < MaxPids
  /\ LET pid == Len(os) + 1 IN
     /\ os' = Append(os, [owner |-> t, st |-> "alive",
                          binary |-> get_cmd_mtime(task[t].name)])
     /\ task' = [task EXCEPT ![t].start_time = now,
                             ![t].pc = "spawned",
                             ![t].pid = pid,
                             ![t].gen = @ + 1,
                             ![t].exit_rx = << >>]
  /\ ev' = Event(t, "spawn_ok", "none", task[t].name, "")
  /\ UNCHANGED <<now, cfg, reg, poisoned, inbox, pend, mtime, budget, hist, watcher, wsnap, auth, plog, launch>>

\* a task that goes into its select without calling set_running
SetRunningSkipped(t) ==
  /\ task[t].pc = "spawned"
  /\ task' = [task EXCEPT ![t].pc = "select",
                          ![t].timer = max_run_fut(task[t].name)]
  /\ ev' = Event(t, "set_running", "none", task[t].name, "")
  /\ UNCHANGED <<now, cfg, reg, poisoned, inbox, pend, os, mtime, budget, hist, watcher, wsnap, auth, plog, launch>>

\* after the spawn: set_running, then the waiter thread and the max-run timer
\* are started and the task enters the select (supervisor.rs 177-199)
SetRunning(t) ==
  /\ task[t].pc = "spawned"
  /\ IF CanLock
     THEN /\ reg' = set_running(reg, task[t].name, task[t].pid)
          /\ hist' = [hist EXCEPT ![task[t].name].set_running = @ + 1]
          /\ task' = [task EXCEPT ![t].pc = "select",
                                  ![t].timer = max_run_fut(task[t].name)]
          /\ inbox' = inbox
          /\ ev' = Event(t, "set_running", "set_running", task[t].name, "Running")
     ELSE /\ reg' = reg
          /\ hist' = hist
          /\ task' = [task EXCEPT ![t] = Panicked(@)]
          /\ inbox' = [inbox EXCEPT ![t] = << >>]
          /\ ev' = Event(t, "set_running", "panic", task[t].name, "Running")
  /\ UNCHANGED <<now, cfg, poisoned, pend, os, mtime, budget, watcher, wsnap, auth, plog, launch>>

\* a set_state made by a supervisor branch, followed by the rest of the branch
BranchSetState(t, act, state, after) ==
  IF CanLock
  THEN /\ reg' = set_state(reg, task[t].name, state)
       /\ task' = [task EXCEPT ![t] = after]
       /\ ev' = Event(t, act, "set_state", task[t].name, state.tag)
  ELSE /\ reg' = reg
       /\ task' = [task EXCEPT ![t] = Panicked(@)]
       /\ ev' = Event(t, act, "panic", task[t].name, state.tag)

\* select branch 1: the child exited by itself
SelectExit(t) ==
  /\ task[t].pc = "select"
  /\ task[t].exit_rx # << >>
  /\ BranchSetState(t, "exit", Exited(task[t].exit_rx[1]), wait_next(EndGen(task[t])))
  /\ inbox' = IF CanLock THEN inbox ELSE [inbox EXCEPT ![t] = << >>]
  /\ UNCHANGED <<now, cfg, poisoned, pend, os, mtime, budget, hist, watcher, wsnap, auth, plog, launch>>

\* a Restart branch that honours `next` like the other two branches
SelectRestartWaitNext(t) ==
  /\ task[t].pc = "select"
  /\ inbox[t] # << >>
  /\ Head(inbox[t]).kind = "Restart"
  /\ os' = kill_process(os, task[t].pid)
  /\ BranchSetState(t, "restart", Stopped, wait_next(EndGen(task[t])))
  /\ inbox' = IF CanLock THEN [inbox EXCEPT ![t] = Tail(@)] ELSE [inbox EXCEPT ![t] = << >>]
  /\ UNCHANGED <<now, cfg, poisoned, pend, mtime, budget, hist, watcher, wsnap, auth, plog, launch>>

\* select branch 2, ControlMsg::Restart
SelectRestart(t) ==
  /\ task[t].pc = "select"
  /\ inbox[t] # << >>
  /\ Head(inbox[t]).kind = "Restart"
  /\ os' = kill_process(os, task[t].pid)
  /\ BranchSetState(t, "restart", Stopped, respawn_floor(EndGen(task[t])))
  /\ inbox' = IF CanLock THEN [inbox EXCEPT ![t] = Tail(@)] ELSE [inbox EXCEPT ![t] = << >>]
  /\ UNCHANGED <<now, cfg, poisoned, pend, mtime, budget, hist, watcher, wsnap, auth, plog, launch>>

\* a Kill branch that falls through to the end of the loop instead of returning
SelectKillNoReturn(t) ==
  /\ task[t].pc = "select"
  /\ inbox[t] # << >>
  /\ Head(inbox[t]).kind = "Kill"
  /\ os' = kill_process(os, task[t].pid)
  /\ BranchSetState(t, "kill", Killed, respawn_floor(EndGen(task[t])))
  /\ hist' = IF CanLock THEN [hist EXCEPT ![task[t].name].killed = TRUE] ELSE hist
  /\ inbox' = IF CanLock THEN [inbox EXCEPT ![t] = Tail(@)] ELSE [inbox EXCEPT ![t] = << >>]
  /\ UNCHANGED <<now, cfg, poisoned, pend, mtime, budget, watcher, wsnap, auth, plog, launch>>

\* select branch 2, ControlMsg::Kill: the task returns
SelectKill(t) ==
  /\ task[t].pc = "select"
  /\ inbox[t] # << >>
  /\ Head(inbox[t]).kind = "Kill"
  /\ os' = kill_process(os, task[t].pid)
  /\ BranchSetState(t, "kill", Killed, [EndGen(task[t]) EXCEPT !.pc = "done"])
  /\ hist' = IF CanLock THEN [hist EXCEPT ![task[t].name].killed = TRUE] ELSE hist
  /\ inbox' = [inbox EXCEPT ![t] = << >>]
  /\ UNCHANGED <<now, cfg, poisoned, pend, mtime, budget, watcher, wsnap, auth, plog, launch>>

\* select branch 3: the max-run timer fired
SelectMaxRun(t) ==
  /\ task[t].pc = "select"
  /\ now >= task[t].timer
  /\ os' = kill_process(os, task[t].pid)
  /\ BranchSetState(t, "max_run", Stopped, wait_next(EndGen(task[t])))
  /\ inbox' = IF CanLock THEN inbox ELSE [inbox EXCEPT ![t] = << >>]
  /\ UNCHANGED <<now, cfg, poisoned, pend, mtime, budget, hist, watcher, wsnap, auth, plog, launch>>

\* the `next` sleep is over: on to the respawn floor
WakeNext(t) ==
  /\ task[t].pc = "next_sleep"
  /\ now >= task[t].wake
  /\ task' = [task EXCEPT ![t] = respawn_floor([@ EXCEPT !.wake = 0])]
  /\ ev' = Event(t, "wake_next", "none", task[t].name, "")
  /\ UNCHANGED <<now, cfg, reg, poisoned, inbox, pend, os, mtime, budget, hist, watcher, wsnap, auth, plog, launch>>

\* a 1-second sleep (respawn floor or spawn-failure retry) is over
WakeLoop(t) ==
  /\ task[t].pc \in {"floor_sleep", "retry_sleep"}
  /\ now >= task[t].wake
  /\ task' = [task EXCEPT ![t].pc = "loop", ![t].wake = 0]
  /\ ev' = Event(t, "wake_loop", "none", task[t].name, "")
  /\ UNCHANGED <<now, cfg, reg, poisoned, inbox, pend, os, mtime, budget, hist, watcher, wsnap, auth, plog, launch>>


\* --------------------------------------------------------- environment
\* a task that can run without waiting for the clock: tokio wakes a sleeper
\* whose deadline has passed, and runs a task that is not suspended
Due(t) ==
  \/ task[t].pc = "init"
  \/ task[t].pc = "loop" /\ (budget.fails > 0 \/ Len(os) < MaxPids)
  \/ task[t].pc = "spawned"
  \/ task[t].pc = "select" /\ (now >= task[t].timer \/ task[t].exit_rx # << >> \/ inbox[t] # << >>)
  \/ task[t].pc \in {"next_sleep", "floor_sleep", "retry_sleep"} /\ now >= task[t].wake

Tick ==
  /\ now < MaxTime
  /\ \A t \in Tasks : ~Due(t)
  /\ now < watcher /\ wsnap = NoSnap
  /\ \A p \in Pids : os[p].st # "signalled"
  /\ now' = now + 1
  /\ ev' = Event(0, "tick", "none", "", "")
  /\ UNCHANGED <<cfg, reg, poisoned, task, inbox, pend, os, mtime, budget, hist, watcher, wsnap, auth, plog, launch>>

\* a child dies (by itself, or of the SIGKILL it was sent, which takes effect
\* some time after kill() has returned but before the clock moves); the waiter
\* thread reaps it and sends the code on the one-shot (supervisor.rs 186-189),
\* which only the generation that has not left its select receives
ChildExit(p, c) ==
  /\ os[p].st # "dead"
  /\ os' = [os EXCEPT ![p].st = "dead"]
  /\ LET t == os[p].owner
         code == IF os[p].st = "signalled" THEN -1 ELSE c IN
     task' = IF task[t].pc \in {"spawned", "select"} /\ task[t].pid = p
             THEN [task EXCEPT ![t].exit_rx = << code >>]
             ELSE task
  /\ ev' = Event(os[p].owner, "child_exit", "none", "", "")
  /\ UNCHANGED <<now, cfg, reg, poisoned, inbox, pend, mtime, budget, hist, watcher, wsnap, auth, plog, launch>>

\* the executable is replaced on disk
Touch(n) ==
  /\ n \in DOMAIN mtime
  /\ mtime[n] # NoMtime
  /\ budget.events > 0
  /\ budget' = [budget EXCEPT !.events = @ - 1]
  /\ mtime' = [mtime EXCEPT ![n] = @ + 1]
  /\ ev' = Event(0, "touch", "none", n, "")
  /\ UNCHANGED <<now, cfg, reg, poisoned, task, inbox, pend, os, hist, watcher, wsnap, auth, plog, launch>>

\* the executable is removed from the disk: its metadata can no longer be read
Unlink(n) ==
  /\ n \in DOMAIN mtime
  /\ mtime[n] # NoMtime
  /\ budget.events > 0
  /\ budget' = [budget EXCEPT !.events = @ - 1]
  /\ mtime' = [mtime EXCEPT ![n] = NoMtime]
  /\ ev' = Event(0, "unlink", "none", n, "")
  /\ UNCHANGED <<now, cfg, reg, poisoned, task, inbox, pend, os, hist, watcher, wsnap, auth, plog, launch>>

\* -------------------------------------------------------------- watcher
\* the Restart the watcher try_sends on the sender of the entry pe it holds
WatcherMsg(pe) ==
  [ControlMsg("Restart", pe.control_tx) EXCEPT !.seen = pe.pid]

\* a watch_one that does not look at the entry's state
watch_one_any_state(ib, n) ==
  IF /\ n \in DOMAIN reg
     /\ cfg[n].enable
     /\ n \in DOMAIN mtime
     /\ get_cmd_mtime(n) # reg[n].last_modified
     /\ ~Closed(reg[n].control_tx)
     /\ Len(ib[reg[n].control_tx]) < Capacity
  THEN [ib EXCEPT ![reg[n].control_tx] = Append(@, WatcherMsg(reg[n]))]
  ELSE ib

\* a watch_one whose send does not respect the channel's capacity
watch_one_unbounded(ib, n) ==
  IF /\ n \in DOMAIN reg
     /\ cfg[n].enable /\ reg[n].state = Running
     /\ n \in DOMAIN mtime
     /\ get_cmd_mtime(n) # reg[n].last_modified
     /\ ~Closed(reg[n].control_tx)
  THEN [ib EXCEPT ![reg[n].control_tx] = Append(@, WatcherMsg(reg[n]))]
  ELSE ib

\* Registry::watch_one: past every early return it try_sends a Restart, which
\* is dropped when the inbox is full or its receiver is gone
watch_one(ib, n) ==
  IF /\ n \in DOMAIN reg
     /\ cfg[n].enable /\ reg[n].state = Running
     /\ n \in DOMAIN mtime
     /\ get_cmd_mtime(n) # reg[n].last_modified
     /\ ~Closed(reg[n].control_tx)
     /\ Len(ib[reg[n].control_tx]) < Capacity
  THEN [ib EXCEPT ![reg[n].control_tx] = Append(@, WatcherMsg(reg[n]))]
  ELSE ib

\* Registry::watch, the body of its loop: watch_one for every key of the map
RECURSIVE watch_all(_, _)
watch_all(ib, names) ==
  IF names = {} THEN ib
  ELSE LET n == CHOOSE x \in names : TRUE
       IN watch_all(watch_one(ib, n), names \ {n})

\* Registry::watch, one turn of its loop: the sleep is over, sweep the names,
\* sleep again.  On a poisoned mutex the watcher task panics.
WatchSweep ==
  /\ now >= watcher
  /\ IF CanLock
     THEN /\ inbox' = watch_all(inbox, DOMAIN reg)
          /\ watcher' = now + RestartDelay
     ELSE /\ inbox' = inbox
          /\ watcher' = Never
  /\ ev' = Event(0, "watch", "none", "", "")
  /\ UNCHANGED <<now, cfg, reg, poisoned, task, pend, os, mtime, wsnap, budget, hist, auth, plog, launch>>

\* -------------------------------------------- watcher, step by step
\* Registry::find: a clone of the entry, taken under the lock
find(r, name) == r[name]

\* Registry::watch_one after its find: every decision is made on the clone pe,
\* the mtime is read from the disk now, and the Restart goes to the sender in
\* the clone
watch_one_found(ib, n, pe) ==
  IF /\ cfg[n].enable /\ pe.state = Running
     /\ n \in DOMAIN mtime
     /\ get_cmd_mtime(n) # pe.last_modified
     /\ ~Closed(pe.control_tx)
     /\ Len(ib[pe.control_tx]) < Capacity
  THEN [ib EXCEPT ![pe.control_tx] = Append(@, WatcherMsg(pe))]
  ELSE ib

\* the watcher up to the return of a find: at the start of a sweep (the sleep
\* is over) it collects the keys; then it clones the entry of the next name.
\* Either lock panics on a poisoned mutex.
WatchFind ==
  /\ wsnap.name = ""
  /\ wsnap = NoSnap => now >= watcher
  /\ LET todo == IF wsnap = NoSnap THEN DOMAIN reg ELSE wsnap.todo IN
     IF ~CanLock
     THEN /\ watcher' = Never /\ wsnap' = NoSnap
     ELSE IF todo = {}
     THEN /\ watcher' = now + RestartDelay /\ wsnap' = NoSnap
     ELSE LET n == CHOOSE x \in todo : TRUE IN
          /\ wsnap' = [todo |-> todo \ {n}, name |-> n, pe |-> find(reg, n)]
          /\ watcher' = watcher
  /\ ev' = Event(0, "watch_find", "none", "", "")
  /\ UNCHANGED <<now, cfg, reg, poisoned, task, inbox, pend, os, mtime, budget, hist, auth, plog, launch>>

\* the watcher from the return of a find to the end of watch_one; after the
\* last name it goes back to sleep
WatchSend ==
  /\ wsnap.name # ""
  /\ inbox' = watch_one_found(inbox, wsnap.name, wsnap.pe)
  /\ IF wsnap.todo = {}
     THEN /\ wsnap' = NoSnap /\ watcher' = now + RestartDelay
     ELSE /\ wsnap' = [wsnap EXCEPT !.name = "", !.pe = << >>] /\ watcher' = watcher
  /\ ev' = Event(0, "watch_send", "none", wsnap.name, "")
  /\ UNCHANGED <<now, cfg, reg, poisoned, task, pend, os, mtime, budget, hist, auth, plog, launch>>

\* ----------------------------------------------------------------- HTTP
\* restart_process / kill_process (handlers.rs) up to tx.send(..).await:
\* set_state(Stopping), get_control
HttpControl(n, kind) ==
  /\ budget.events > 0
  /\ budget' = [budget EXCEPT !.events = @ - 1]
  /\ IF ~CanLock
     THEN /\ UNCHANGED <<reg, poisoned, pend>>
          /\ ev' = Event(0, "http", "panic", n, "Stopping")
     ELSE IF n \notin DOMAIN reg
     THEN /\ poisoned' = TRUE
          /\ UNCHANGED <<reg, pend>>
          /\ ev' = Event(0, "http", "panic", n, "Stopping")
     ELSE /\ reg' = set_state(reg, n, Stopping)
          /\ pend' = pend \cup {[id |-> budget.events, tx |-> get_control(n), kind |-> kind]}
          /\ poisoned' = poisoned
          /\ ev' = Event(0, "http", "set_state", n, "Stopping")
  /\ UNCHANGED <<now, cfg, task, inbox, os, mtime, hist, watcher, wsnap, auth, plog, launch>>

\* tx.send(msg).await completes: the message enters the inbox, or the send
\* fails because the receiver is gone (500)
HttpSend(r) ==
  /\ r \in pend
  /\ Closed(r.tx) \/ Len(inbox[r.tx]) < Capacity
  /\ pend' = pend \ {r}
  /\ inbox' = IF Closed(r.tx) THEN inbox
              ELSE [inbox EXCEPT ![r.tx] = Append(@, ControlMsg(r.kind, r.tx))]
  /\ ev' = Event(0, "http_send", "none", task[r.tx].name, r.kind)
  /\ UNCHANGED <<now, cfg, reg, poisoned, task, os, mtime, budget, hist, watcher, wsnap, auth, plog, launch>>

\* start_process (handlers.rs): set_state(Ready), find, start_spawn
HttpStart(n) ==
  /\ budget.events > 0
  /\ budget' = [budget EXCEPT !.events = @ - 1]
  /\ IF ~CanLock
     THEN /\ UNCHANGED <<reg, poisoned, task, inbox>>
          /\ ev' = Event(0, "http_start", "panic", n, "Ready")
     ELSE IF n \notin DOMAIN reg
     THEN /\ poisoned' = TRUE
          /\ UNCHANGED <<reg, task, inbox>>
          /\ ev' = Event(0, "http_start", "panic", n, "Ready")
     ELSE /\ Len(task) < MaxTasks
          /\ reg' = set_state(reg, n, Ready)
          /\ task' = Append(task, NewTask(n))
          /\ inbox' = Append(inbox, << >>)
          /\ poisoned' = poisoned
          /\ ev' = Event(Len(task) + 1, "http_start", "set_state", n, "Ready")
  /\ UNCHANGED <<now, cfg, pend, os, mtime, hist, watcher, wsnap, auth, plog, launch>>

\* ----------------------------------------------------------------- Next
Next ==
  \/ \E t \in Tasks : Register(t)
  \/ \E t \in Tasks : SpawnFail(t)
  \/ \E t \in Tasks : SpawnOk(t)
  \/ \E t \in Tasks : SetRunning(t)
  \/ \E t \in Tasks : SelectExit(t)
  \/ \E t \in Tasks : SelectRestart(t)
  \/ \E t \in Tasks : SelectKill(t)
  \/ \E t \in Tasks : SelectMaxRun(t)
  \/ \E t \in Tasks : WakeNext(t)
  \/ \E t \in Tasks : WakeLoop(t)
  \/ Tick
  \/ \E p \in Pids, c \in ExitCodes : ChildExit(p, c)
  \/ \E n \in DOMAIN cfg : Touch(n)
  \/ \E n \in DOMAIN cfg : Unlink(n)
  \/ WatchSweep
  \/ \E n \in DOMAIN cfg \cup {Unknown}, kind \in {"Restart", "Kill"} : HttpControl(n, kind)
  \/ \E r \in pend : HttpSend(r)
  \/ \E n \in DOMAIN cfg \cup {Unknown} : HttpStart(n)

Spec == Init /\ [][Next]_vars

\* ------------------------------------------- the watcher interleaved
\* The same engine, with the watcher's sweep taken step by step: the other
\* tasks run between its find and its try_send.
NextWatch ==
  \/ \E t \in Tasks : Register(t)
  \/ \E t \in Tasks : SpawnFail(t)
  \/ \E t \in Tasks : SpawnOk(t)
  \/ \E t \in Tasks : SetRunning(t)
  \/ \E t \in Tasks : SelectExit(t)
  \/ \E t \in Tasks : SelectRestart(t)
  \/ \E t \in Tasks : SelectKill(t)
  \/ \E t \in Tasks : SelectMaxRun(t)
  \/ \E t \in Tasks : WakeNext(t)
  \/ \E t \in Tasks : WakeLoop(t)
  \/ Tick
  \/ \E p \in Pids, c \in ExitCodes : ChildExit(p, c)
  \/ \E n \in DOMAIN cfg : Touch(n)
  \/ \E n \in DOMAIN cfg : Unlink(n)
  \/ WatchFind
  \/ WatchSend
  \/ \E n \in DOMAIN cfg \cup {Unknown}, kind \in {"Restart", "Kill"} : HttpControl(n, kind)
  \/ \E r \in pend : HttpSend(r)
  \/ \E n \in DOMAIN cfg \cup {Unknown} : HttpStart(n)

SpecWatch == Init /\ [][NextWatch]_vars

\* ------------------------------------------------ the engine, scheduled
\* What the runtime and the OS see to: a supervisor task that can run is run
\* (tokio), a handler suspended in send is resumed when the channel lets it,
\* the watcher wakes when its sleep is over, a child that was sent SIGKILL
\* dies, and the clock moves.  Nothing obliges a client to send a request, a
\* file to change or a child to exit by itself.
TaskStep(t) ==
  /\ t \in Tasks
  /\ \/ Register(t) \/ SpawnFail(t) \/ SpawnOk(t) \/ SetRunning(t)
     \/ SelectExit(t) \/ SelectRestart(t) \/ SelectKill(t) \/ SelectMaxRun(t)
     \/ WakeNext(t) \/ WakeLoop(t)

Reap == \E p \in Pids : os[p].st = "signalled" /\ ChildExit(p, 0)

Fairness ==
  /\ \A t \in 1..MaxTasks : WF_vars(TaskStep(t))
  /\ WF_vars(\E r \in pend : HttpSend(r))
  /\ WF_vars(WatchSweep)
  /\ WF_vars(Reap)
  /\ WF_vars(Tick)

SpecLive == Init /\ [][Next]_vars /\ Fairness

\* ------------------------------------------------- a full control inbox
\* Two children, "a" and "b".  The supervisor of "a" has registered, its
\* first spawn has failed (Error, 1-second retry sleep), and during that
\* sleep Capacity restart requests for "a" have been served: each has set the
\* entry to Stopping and put a Restart in the inbox, which the sleeping
\* supervisor has not begun to consume.  The supervisor of "b" has been
\* spawned and has not run yet.
BacklogCfgs == { Config(NoDur, 1), Config(0, NoDur) }

Backlog ==
  [i \in 1..Capacity |-> [kind |-> "Restart", sent_gen |-> 0, sent_pc |-> "retry_sleep", seen |-> 0]]

InitBacklog ==
  /\ now = 0
  /\ cfg \in { [a |-> c, b |-> Config(NoDur, NoDur)] : c \in BacklogCfgs }
  /\ mtime = [n \in { x \in DOMAIN cfg : cfg[x].cmd_abs_path } |-> 0]
  /\ reg = set_state(set_state(register_process(<< >>, "a", 1), "a", Error(0)), "a", Stopping)
  /\ poisoned = FALSE
  /\ task = << [NewTask("a") EXCEPT !.pc = "retry_sleep", !.start_time = 0, !.wake = Second],
               NewTask("b") >>
  /\ inbox = << Backlog, << >> >>
  /\ pend = {}
  /\ os = << >>
  /\ watcher = RestartDelay
  /\ wsnap = NoSnap
  /\ budget = [fails |-> MaxFails, events |-> MaxEvents]
  /\ hist = [n \in DOMAIN cfg |->
               [set_running |-> 0, error |-> IF n = "a" THEN 1 ELSE 0, killed |-> FALSE]]
  /\ ev = Event(0, "init", "none", "", "")
  /\ auth = AuthNew /\ plog = NoLogger /\ launch = NoLaunch

SpecBacklog == InitBacklog /\ [][Next]_vars


\* ------------------------------------------- the Registry on its own
\* register_process called with any name and any sender, in any order; the
\* method holds the mutex from its first line to its last, so concurrent calls
\* take effect one after the other
RegNames == {"a", "b", "c"}
Senders == 1..MaxSenders

InitReg ==
  /\ now = 0
  /\ cfg = [n \in RegNames |-> Config(NoDur, NoDur)]
  /\ reg = << >>
  /\ poisoned = FALSE
  /\ task = << >>
  /\ inbox = << >>
  /\ pend = {}
  /\ os = << >>
  /\ mtime = [n \in RegNames |-> 0]
  /\ watcher = Never
  /\ wsnap = NoSnap
  /\ budget = [fails |-> 0, events |-> 0]
  /\ hist = [n \in RegNames |-> [set_running |-> 0, error |-> 0, killed |-> FALSE]]
  /\ ev = Event(0, "init", "none", "", "")
  /\ auth = AuthNew /\ plog = NoLogger /\ launch = NoLaunch

RegisterCall(n, tx) ==
  /\ reg' = register_process(reg, n, tx)
  /\ ev' = Event(0, "register", "register_process", n, "")
  /\ UNCHANGED <<now, cfg, poisoned, task, inbox, pend, os, mtime, watcher, wsnap, budget, hist, auth, plog, launch>>

NextReg == \E n \in RegNames, tx \in Senders : RegisterCall(n, tx)

SpecReg == InitReg /\ [][NextReg]_vars

\* ------------------------------------------------------------ HTTP auth
\* The auth middleware alone: requests from two client addresses, the clock
\* in minutes, the sweeper.  The engine does not move.
InitAuth ==
  /\ now = 0
  /\ cfg = << >> /\ reg = << >> /\ poisoned = FALSE
  /\ task = << >> /\ inbox = << >> /\ pend = {} /\ os = << >> /\ mtime = << >>
  /\ watcher = Never
  /\ wsnap = NoSnap
  /\ budget = [fails |-> 0, events |-> 0]
  /\ hist = << >>
  /\ ev = Event(0, "init", "none", "", "")
  /\ auth \in { [AuthNew EXCEPT !.configured = c] : c \in BOOLEAN }
  /\ plog = NoLogger /\ launch = NoLaunch

\* the requests of a client that are recorded as failures or in flight
Load(ip) ==
  (IF ip \in DOMAIN auth.failed THEN Len(auth.failed[ip]) ELSE 0)
    + Cardinality({ i \in 1..Len(auth.reqs) : auth.reqs[i].ip = ip })

\* a request enters basic_auth (auth.rs 56-75): without a configured username
\* it goes to the handler; otherwise the ban check answers 403 or lets it on.
\* The event's call field carries the request's credentials.
BasicAuthEnter(ip, creds) ==
  /\ Len(auth.reqs) < MaxInFlight
  /\ Load(ip) < (IF ip = "x" THEN MaxRequests ELSE MaxOther)
  /\ LET c == ban_check(auth.failed, ip, now)
         resp == IF ~auth.configured THEN "handler"
                 ELSE IF c.forbidden THEN "403" ELSE "" IN
     /\ auth' = [auth EXCEPT
                   !.failed = IF auth.configured THEN c.failed ELSE @,
                   !.reqs = IF resp = "" THEN Append(@, [ip |-> ip, creds |-> creds])
                            ELSE @]
     /\ ev' = Event(0, "basic_auth_enter", creds, ip, resp)
  /\ UNCHANGED <<now, engine, plog, launch>>

\* a request that passed the ban check has its credentials evaluated
\* (auth.rs 77-120): the handler runs, or the failure is recorded and the
\* answer is 401
BasicAuthVerify(i) ==
  /\ i \in 1..Len(auth.reqs)
  /\ LET r == auth.reqs[i]
         resp == IF authorized(r.creds) THEN "handler" ELSE "401" IN
     /\ auth' = [auth EXCEPT
                   !.reqs = SubSeq(@, 1, i - 1) \o SubSeq(@, i + 1, Len(@)),
                   !.failed = IF authorized(r.creds) THEN @
                              ELSE record_failure(@, r.ip, now)]
     /\ ev' = Event(0, "basic_auth_verify", r.creds, r.ip, resp)
  /\ UNCHANGED <<now, engine, plog, launch>>

\* the sweeper's round (auth.rs 36-44)
AuthCleanup ==
  /\ cleanup(auth.failed, now) # auth.failed
  /\ auth' = [auth EXCEPT !.failed = cleanup(@, now)]
  /\ ev' = Event(0, "cleanup", "none", "", "")
  /\ UNCHANGED <<now, engine, plog, launch>>

\* a minute passes
AuthTick ==
  /\ now < MaxAuthTime
  /\ now' = now + 1
  /\ ev' = Event(0, "tick", "none", "", "")
  /\ UNCHANGED <<engine, auth, plog, launch>>

NextAuth ==
  \/ \E ip \in IPs, creds \in Credentials : BasicAuthEnter(ip, creds)
  \/ \E i \in 1..MaxInFlight : BasicAuthVerify(i)
  \/ AuthCleanup
  \/ AuthTick

SpecAuth == InitAuth /\ [][NextAuth]_vars

\* ----------------------------------------------------------- pipe logger
\* One pipe_logger thread on one stream of one child.  The output directory
\* is there or not when the thread starts, and each hour's file is absent or
\* holds what an earlier generation of the child logged (the byte 0).
Hours == 0..MaxHour

InitLog ==
  /\ now = 0
  /\ cfg = << >> /\ reg = << >> /\ poisoned = FALSE
  /\ task = << >> /\ inbox = << >> /\ pend = {} /\ os = << >> /\ mtime = << >>
  /\ watcher = Never
  /\ wsnap = NoSnap
  /\ budget = [fails |-> 0, events |-> 0]
  /\ hist = << >>
  /\ ev = Event(0, "init", "none", "", "")
  /\ auth = AuthNew /\ launch = NoLaunch
  /\ \E d \in BOOLEAN, S \in SUBSET Hours :
       /\ ~d => S = {}
       /\ plog = [NoLogger EXCEPT !.pc = "run", !.dir = d,
                                  !.files = [h \in S |-> << 0 >>],
                                  !.before = [h \in S |-> << 0 >>]]

\* reader.read returns n bytes, and the loop body runs (logger.rs 26-74)
LoggerRead(n, mk, op, wr) ==
  /\ plog.pc = "run"
  /\ Len(plog.read) + n <= MaxBytes
  /\ plog' = pipe_logger_iter(plog, n, mk, op, wr)
  /\ plog'.errs <= MaxIoErrors
  /\ ev' = Event(0, "pipe_logger", "none", "", "")
  /\ UNCHANGED <<now, engine, auth, launch>>

\* reader.read returns Ok(0) or an error: the loop ends (logger.rs 27-32)
LoggerReadEnd(err) ==
  /\ plog.pc = "run"
  /\ err => plog.errs < MaxIoErrors
  /\ plog' = [plog EXCEPT
                !.pc = "ended",
                !.errs = IF err THEN @ + 1 ELSE @,
                !.last = [read |-> IF err THEN "err" ELSE "eof",
                          mkdir |-> "", open |-> "", write |-> ""]]
  /\ ev' = Event(0, "pipe_logger", "none", "", "")
  /\ UNCHANGED <<now, engine, auth, launch>>

\* the hour of the day changes (current_hour, logger.rs 10-12)
HourTick ==
  /\ plog.hour < MaxHour
  /\ plog' = [plog EXCEPT !.hour = @ + 1]
  /\ ev' = Event(0, "tick", "none", "", "")
  /\ UNCHANGED <<now, engine, auth, launch>>

NextLog ==
  \/ \E n \in 1..2, mk, op \in BOOLEAN, wr \in 0..2 : wr <= n /\ LoggerRead(n, mk, op, wr)
  \/ \E err \in BOOLEAN : LoggerReadEnd(err)
  \/ HourTick

SpecLog == InitLog /\ [][NextLog]_vars

\* ------------------------------------------------------- command line
\* One child's ProcessConfig as check_and_init leaves it (the sandbox empty,
\* one token or two; the placeholder in any token or in none; home set or
\* empty), and the Command the supervisor builds from it at each spawn.
LaunchCfgs ==
  [ cmd : { << "app" >>, << PH, "/app" >> },
    args : { << >>, << << "-v" >> >>, << << "--dir=", PH >> >> },
    sandbox : { << >>, << << "sbx" >> >>, << << "sbx" >>, << "--home=", PH >> >> },
    home : { "", "/srv" } ]

InitLaunch ==
  /\ now = 0
  /\ cfg = << >> /\ reg = << >> /\ poisoned = FALSE
  /\ task = << >> /\ inbox = << >> /\ pend = {} /\ os = << >> /\ mtime = << >>
  /\ watcher = Never
  /\ wsnap = NoSnap
  /\ budget = [fails |-> 0, events |-> 0]
  /\ hist = << >>
  /\ ev = Event(0, "init", "none", "", "")
  /\ auth = AuthNew /\ plog = NoLogger
  /\ launch \in { [NoLaunch EXCEPT !.pcfg = pc] : pc \in LaunchCfgs }

\* supervise calls spawn_process(&cfg) (supervisor.rs 168)
SpawnProcess ==
  /\ launch.spawned < MaxLaunches
  /\ launch' = [launch EXCEPT !.spawned = @ + 1,
                              !.command = spawn_process(launch.pcfg)]
  /\ ev' = Event(0, "spawn_process", "none", "", "")
  /\ UNCHANGED <<now, engine, auth, plog>>

NextLaunch == SpawnProcess

SpecLaunch == InitLaunch /\ [][NextLaunch]_vars


\* ==================================================================
\* Properties
\* ==================================================================
Terminal == {"Stopped", "Killed", "Exited", "Error"}

\* the last step was task t making a spawn attempt
SpawnAttempt(t) == ev.t = t /\ ev.act \in {"spawn_ok", "spawn_fail"}

\* the children of task t that have not died
Alive(t) == { p \in Pids : os[p].owner = t /\ os[p].st # "dead" }

\* C1: the step in which a supervisor task consumes a Kill (kills the pid, sets
\* Killed) ends the task; from then on the task takes no step at all, so it
\* makes no spawn attempt and no set_running, it owns no new child, and its
\* entry stays in the Registry.
C1_KillEndsSupervisor ==
  [][\A t \in Tasks :
       /\ (ev'.t = t /\ ev'.act = "kill" /\ ev'.call = "set_state")
            => task'[t].pc = "done"
       /\ task[t].pc = "done" =>
            /\ task'[t] = task[t]
            /\ ~SpawnAttempt(t)'
            /\ ev'.t = t => ev'.call = "none"
            /\ \A p \in DOMAIN os' : os'[p].owner = t => p \in DOMAIN os
            /\ task[t].name \in DOMAIN reg']_vars

\* a task has returned after a Kill, its entry is there in state Killed, and
\* the system has gone on (the clock has moved since)
C1_Witness ==
  \E t \in Tasks :
    /\ task[t].pc = "done"
    /\ task[t].name \in DOMAIN reg
    /\ reg[task[t].name].state = Killed
    /\ ev.act = "tick"

\* an HTTP start request has been accepted for n: it has more than the one
\* supervisor task it was loaded with
Started(n) == Cardinality({ t \in Tasks : task[t].name = n }) > 1

\* C2 as stated: once an entry has been set to Killed it is never Running
\* again, whatever requests are made.
C2_Original_NoRunningAfterKilled ==
  \A n \in DOMAIN reg : hist[n].killed => reg[n].state # Running

\* C2 amended: for an entry for which no HTTP start request was made, once
\* it has been set to Killed it is never Running again.
C2_NoRunningAfterKilledUnlessStarted ==
  \A n \in DOMAIN reg : (hist[n].killed /\ ~Started(n)) => reg[n].state # Running

\* the entry was Killed, no start was made, and a later restart request has
\* moved it to Stopping
C2_Witness ==
  \E n \in DOMAIN reg :
    /\ hist[n].killed /\ ~Started(n)
    /\ reg[n].state = Stopping

\* C3: a supervisor task has at most one live child at any time.
C3_AtMostOneLiveChild ==
  \A t \in Tasks : Cardinality(Alive(t)) <= 1

\* C4: an entry's pid is non-zero exactly in the states Running and Stopping.
C4_PidIffRunningOrStopping ==
  \A n \in DOMAIN reg :
    (reg[n].pid # 0) <=> (reg[n].state.tag \in {"Running", "Stopping"})

\* C5: start_count is the number of set_running calls plus the number of
\* set_state(Error) calls made for the entry, and only those two calls change
\* it.
C5_StartCount ==
  /\ [](\A n \in DOMAIN reg :
          reg[n].start_count = hist[n].set_running + hist[n].error)
  /\ [][\A n \in DOMAIN reg :
          reg'[n].start_count # reg[n].start_count =>
            /\ ev'.name = n
            /\ \/ ev'.call = "set_running"
               \/ ev'.call = "set_state" /\ ev'.st = "Error"]_vars

\* an entry that has counted a failed spawn and a successful one, and was
\* re-registered by a second supervisor task
C5_Witness ==
  \E n \in DOMAIN reg :
    /\ hist[n].set_running >= 1 /\ hist[n].error >= 1
    /\ reg[n].start_count >= 2
    /\ reg[n].control_tx = 2

\* C6: a set_state with Stopped, Killed, Exited or Error sets exit_time to the
\* current time; every other step (set_state with another state, set_running,
\* register_process on the name, anything else) leaves exit_time as it was.
C6_ExitTime ==
  [][\A n \in DOMAIN reg :
       IF ev'.call = "set_state" /\ ev'.name = n /\ ev'.st \in Terminal
       THEN reg'[n].exit_time = now
       ELSE reg'[n].exit_time = reg[n].exit_time]_vars

\* an entry whose exit_time was set by an earlier generation's end is Running
\* again (set_running left it alone) at a later time
C6_Witness ==
  \E n \in DOMAIN reg :
    /\ reg[n].exit_time # NoTime
    /\ reg[n].exit_time < now
    /\ ev.call = "set_running" /\ ev.name = n

\* C7: two consecutive spawn attempts of a task are at least one second
\* apart.
C7_RespawnFloor ==
  [][\A t \in Tasks :
       (SpawnAttempt(t)' /\ task[t].start_time # NoTime)
         => task'[t].start_time - task[t].start_time >= Second]_vars

\* a task has just made its second successful spawn
C7_Witness ==
  \E t \in Tasks : SpawnAttempt(t) /\ task[t].gen = 2

\* C8: a Restart sent while generation G was running is never consumed by a
\* later generation.
C8_RestartHitsItsGeneration ==
  [][\A t \in Tasks :
       (ev'.t = t /\ ev'.act = "restart")
         => Head(inbox[t]).sent_gen \in {0, task[t].gen}]_vars

\* C9: with max_run configured as zero the max-run branch is never taken.
C9_ZeroMaxRunDisabled ==
  ev.act = "max_run" => cfg[ev.name].max_run # 0

\* C10: a generation that ends by max-run timeout or natural exit while a
\* Restart is pending in the inbox is not followed by the `next` sleep.
C10_PendingRestartSkipsNext ==
  [][\A t \in Tasks :
       ( /\ ev'.t = t /\ ev'.act \in {"max_run", "exit"}
         /\ \E i \in 1..Len(inbox[t]) : inbox[t][i].kind = "Restart" )
         => task'[t].pc # "next_sleep"]_vars

\* C11: how a generation ends decides the cool-down.  A generation ended by a
\* consumed Restart leaves the entry Stopped and the task goes on without the
\* `next` sleep; one ended by natural exit leaves it Exited(code), one ended by
\* the max-run timer leaves it Stopped, and in both cases the task, if `next`
\* is set, sleeps until `next` after the end.  The sleep is over before the
\* task does anything else, and a spawn is attempted only from the loop head.
C11_CoolDownByEnding ==
  [][\A t \in Tasks :
       LET n == task[t].name
           ends(act) == ev'.t = t /\ ev'.act = act /\ ev'.call = "set_state"
           slept == cfg[n].next # NoDur =>
                      /\ task'[t].pc = "next_sleep"
                      /\ task'[t].wake = now + cfg[n].next
       IN /\ ends("restart") =>
               /\ reg'[n].state = Stopped
               /\ task'[t].pc \in {"loop", "floor_sleep"}
          /\ ends("exit") => reg'[n].state.tag = "Exited" /\ slept
          /\ ends("max_run") => reg'[n].state = Stopped /\ slept
          /\ (task[t].pc = "next_sleep" /\ task'[t] # task[t]) =>
               /\ now >= task[t].wake
               /\ task'[t].pc \in {"loop", "floor_sleep"}
          /\ SpawnAttempt(t)' => task[t].pc = "loop"]_vars

\* a generation of a child configured with `next` has just been ended by a
\* Restart, and the task is on its way to the next spawn without the sleep
C11_Witness ==
  \E t \in Tasks :
    /\ ev.t = t /\ ev.act = "restart" /\ ev.call = "set_state"
    /\ cfg[task[t].name].next # NoDur
    /\ task[t].pc \in {"loop", "floor_sleep"}

\* C12: a spawn failure is never fatal.  A failed spawn never makes the task
\* return; its set_state puts the entry in Error and the task sleeps one
\* second, after which it is back at the loop head and nowhere else; a spawn
\* that succeeds there puts the entry in Running.  A task ends abnormally at a
\* spawn only when the Registry mutex was poisoned before that step: a failed
\* spawn poisons nothing.
C12_SpawnFailureNotFatal ==
  [][\A t \in Tasks :
       LET n == task[t].name IN
       /\ (ev'.t = t /\ ev'.act = "spawn_fail") =>
            /\ task'[t].pc # "done"
            /\ poisoned' = poisoned
            /\ task'[t].pc = "panicked" => poisoned
       /\ (ev'.t = t /\ ev'.act = "spawn_fail" /\ ev'.call = "set_state") =>
            /\ reg'[n].state.tag = "Error"
            /\ task'[t].pc = "retry_sleep"
            /\ task'[t].wake = now + Second
       /\ (task[t].pc = "retry_sleep" /\ task'[t] # task[t]) =>
            /\ now >= task[t].wake
            /\ task'[t].pc = "loop"
       /\ (ev'.t = t /\ ev'.act = "spawn_ok") => task'[t].pc = "spawned"
       /\ (ev'.t = t /\ ev'.act = "set_running" /\ ev'.call = "set_running") =>
            /\ task[t].pc = "spawned"
            /\ reg'[n].state = Running
            /\ task'[t].pc = "select"]_vars

\* the first spawn of a task failed, and its retry one second later has just
\* succeeded: the entry is Running
C12_Witness ==
  \E t \in Tasks :
    /\ ev.t = t /\ ev.call = "set_running"
    /\ task[t].gen = 1
    /\ hist[task[t].name].error >= 1
    /\ now >= Second
    /\ reg[task[t].name].state = Running

\* C13: no HTTP control request and no failure of a child makes a supervisor
\* task or the watcher terminate abnormally: no task has panicked, and the
\* watcher is still in its loop, with a sweep ahead of it.
C13_NoAbnormalTermination ==
  /\ \A t \in Tasks : task[t].pc # "panicked"
  /\ watcher # Never

\* C14: the entry of a child configured with enable = false stays Ready, no
\* set_running is ever made for it and no child of it is spawned.
C14_DisabledNeverSpawns ==
  \A n \in DOMAIN reg :
    ~cfg[n].enable =>
      /\ reg[n].state = Ready
      /\ hist[n].set_running = 0
      /\ \A p \in Pids : task[os[p].owner].name # n

\* the executable of n can be read and is not the one its last_modified
\* baseline was taken from
Changed(n) ==
  /\ n \in DOMAIN mtime
  /\ mtime[n] # NoMtime
  /\ mtime[n] # reg[n].last_modified

\* C15: when the watcher's sleep is over and it finds an enabled entry
\* Running with a changed mtime, exactly one Restart enters that entry's
\* inbox; when it finds the mtime equal to last_modified, nothing enters it;
\* and every set_running takes the current mtime as the new last_modified, so
\* that one change gives one Restart.
C15_OneRestartPerChange ==
  [][\A n \in DOMAIN reg :
       LET t == reg[n].control_tx IN
       /\ (ev'.act = "watch" /\ cfg[n].enable /\ reg[n].state = Running /\ Changed(n)) =>
            /\ Len(inbox'[t]) = Len(inbox[t]) + 1
            /\ inbox'[t][Len(inbox'[t])].kind = "Restart"
       /\ (ev'.act = "watch" /\ get_cmd_mtime(n) = reg[n].last_modified) =>
            inbox'[t] = inbox[t]
       /\ (ev'.call = "set_running" /\ ev'.name = n) =>
            reg'[n].last_modified = get_cmd_mtime(n)]_vars

\* C16: a sweep that cannot read the mtime of an entry's cmd_abs_path puts
\* nothing in that entry's inbox.
C16_UnreadableMtimeNoRestart ==
  [][\A n \in DOMAIN reg :
       ( /\ ev'.act = "watch"
         /\ n \in DOMAIN mtime
         /\ get_cmd_mtime(n) = NoMtime )
         => inbox'[reg[n].control_tx] = inbox[reg[n].control_tx]]_vars

\* C17: a watcher sweep changes nothing but inboxes, and what it puts in an
\* inbox is one Restart, for an entry whose sender feeds that inbox and that
\* is enabled, Running, has an absolute path and a current mtime different
\* from its last_modified.  The inbox of an entry that is disabled, not
\* Running, without an absolute path or unchanged stays as it is.
C17_WatcherSendsOnlyWhenDue ==
  [][ev'.act = "watch" =>
       /\ reg' = reg /\ task' = task /\ os' = os /\ pend' = pend
       /\ mtime' = mtime /\ poisoned' = poisoned /\ hist' = hist
       /\ \A t \in Tasks :
            inbox'[t] # inbox[t] =>
              /\ inbox'[t] = Append(inbox[t], inbox'[t][Len(inbox'[t])])
              /\ inbox'[t][Len(inbox'[t])].kind = "Restart"
              /\ \E n \in DOMAIN reg :
                   /\ reg[n].control_tx = t
                   /\ cfg[n].enable
                   /\ reg[n].state = Running
                   /\ n \in DOMAIN mtime
                   /\ get_cmd_mtime(n) # reg[n].last_modified]_vars

\* a sweep has just passed over an entry whose executable has changed but
\* which is not Running, and left its open inbox empty
C17_Witness ==
  \E n \in DOMAIN reg :
    /\ ev.act = "watch"
    /\ ~poisoned
    /\ cfg[n].enable
    /\ Changed(n)
    /\ reg[n].state # Running
    /\ ~Closed(reg[n].control_tx)
    /\ inbox[reg[n].control_tx] = << >>

\* the watcher has a Restart to send to n: n is enabled, Running, has an
\* absolute path whose mtime is not last_modified, and its receiver is there
RestartDue(n) ==
  /\ cfg[n].enable
  /\ reg[n].state = Running
  /\ n \in DOMAIN mtime
  /\ get_cmd_mtime(n) # reg[n].last_modified
  /\ ~Closed(reg[n].control_tx)

\* C18: an inbox never holds more than Capacity (8) messages.  A sweep goes
\* through in one step, whatever the inboxes hold, and the watcher sleeps
\* again; for every entry with a Restart due, the Restart enters the inbox
\* when there is room and is dropped when the inbox is full, and this is
\* decided anew in every sweep, for every entry.
C18_InboxBoundedSweepNeverBlocks ==
  /\ [](\A t \in Tasks : Len(inbox[t]) <= Capacity)
  /\ [][(ev'.act = "watch" /\ ~poisoned) =>
          /\ watcher' = now + RestartDelay
          /\ \A n \in DOMAIN reg :
               LET t == reg[n].control_tx IN
               RestartDue(n) =>
                 IF Len(inbox[t]) < Capacity
                 THEN /\ Len(inbox'[t]) = Len(inbox[t]) + 1
                      /\ SubSeq(inbox'[t], 1, Len(inbox[t])) = inbox[t]
                      /\ inbox'[t][Len(inbox'[t])].kind = "Restart"
                 ELSE inbox'[t] = inbox[t]]_vars

\* a sweep has just found two entries with a Restart due: the inbox of one was
\* full, and is as it was; the other has received its Restart
C18_Witness ==
  \E n, m \in DOMAIN reg :
    /\ ev.act = "watch" /\ ~poisoned
    /\ RestartDue(n) /\ RestartDue(m)
    /\ inbox[reg[n].control_tx] = Backlog
    /\ Len(inbox[reg[m].control_tx]) = 1
    /\ inbox[reg[m].control_tx][1].kind = "Restart"
    /\ task[reg[m].control_tx].pc = "select"

\* C19: an entry appears only by a register_process for its name, in state
\* Ready, with start_count 0, no pid and no start or exit time; and no step
\* removes an entry from the Registry.
C19_CreatedReadyNeverRemoved ==
  [][/\ DOMAIN reg \subseteq DOMAIN reg'
     /\ \A n \in DOMAIN reg' \ DOMAIN reg :
          /\ ev'.call = "register_process" /\ ev'.name = n
          /\ reg'[n].state = Ready
          /\ reg'[n].start_count = 0
          /\ reg'[n].pid = 0
          /\ reg'[n].start_time = NoTime
          /\ reg'[n].exit_time = NoTime]_vars

\* an entry that has been started, killed and then set Ready again by a start
\* request: it is the same entry (its count and exit time are kept), and the
\* second supervisor has registered on it
C19_Witness ==
  \E n \in DOMAIN reg :
    /\ ev.call = "register_process" /\ ev.name = n
    /\ hist[n].killed
    /\ reg[n].state = Ready
    /\ reg[n].start_count >= 1
    /\ reg[n].exit_time # NoTime

\* C20: after any sequence of register_process calls the entries have
\* pairwise distinct indexes; a call for a new name gives it an index above
\* every index there is, and no call changes the index of an entry that is
\* there, so the indexes are in the order of first registration; and list()
\* returns every entry once, in strictly increasing index order.
C20_IndexOrder ==
  /\ [](\A n, m \in DOMAIN reg : n # m => reg[n].index # reg[m].index)
  /\ [](LET l == list(reg) IN
          /\ Len(l) = Cardinality(DOMAIN reg)
          /\ { l[i].name : i \in 1..Len(l) } = DOMAIN reg
          /\ \A i \in 1..Len(l) : l[i].index = reg[l[i].name].index
          /\ \A i \in 1..(Len(l) - 1) : l[i].index < l[i + 1].index)
  /\ [][\A n \in DOMAIN reg' :
          IF n \in DOMAIN reg
          THEN reg'[n].index = reg[n].index
          ELSE \A m \in DOMAIN reg : reg[m].index < reg'[n].index]_vars

\* three names are registered, "c" first and "a" last, and the last call has
\* registered "c" again, with another sender: list() still begins with "c"
C20_Witness ==
  /\ DOMAIN reg = RegNames
  /\ ev.call = "register_process" /\ ev.name = "c"
  /\ reg["c"].control_tx = MaxSenders
  /\ list(reg)[1].name = "c"
  /\ list(reg)[3].name = "a"

\* C21 as stated, last part: once an entry has been set to Killed its state
\* never changes again.
C21_Original_NoTransitionAfterKilled ==
  [][\A n \in DOMAIN reg :
       hist[n].killed => reg'[n].state = reg[n].state]_vars

\* C21 amended: set_state leaves the pid as it was and only set_running
\* writes it, so an entry that is Killed, Stopped or Exited still carries the
\* pid of a child that ran; and once an entry for which no HTTP start request
\* was made has been set to Killed, its state changes only by a later HTTP
\* request (restart or kill sets Stopping, start sets Ready).
C21_SetStateKeepsPid ==
  /\ [][\A n \in DOMAIN reg :
          /\ (ev'.call = "set_state" /\ ev'.name = n) => reg'[n].pid = reg[n].pid
          /\ reg'[n].pid # reg[n].pid => (ev'.call = "set_running" /\ ev'.name = n)]_vars
  /\ [](\A n \in DOMAIN reg :
          reg[n].state.tag \in {"Killed", "Stopped", "Exited"} => reg[n].pid # 0)
  /\ [][\A n \in DOMAIN reg :
          (hist[n].killed /\ ~Started(n) /\ reg'[n].state # reg[n].state)
            => /\ ev'.name = n /\ ev'.call = "set_state"
               /\ \/ ev'.act = "http" /\ reg'[n].state = Stopping
                  \/ ev'.act = "http_start" /\ reg'[n].state = Ready]_vars

\* a Kill has just been consumed: the entry is Killed and still carries the
\* pid of the child that was signalled
C21_Witness ==
  \E n \in DOMAIN reg :
    /\ ev.call = "set_state" /\ ev.st = "Killed" /\ ev.name = n
    /\ reg[n].state = Killed
    /\ reg[n].pid # 0
    /\ os[reg[n].pid].st # "alive"

\* C22: a task in the respawn floor's sleep wakes no later than one second
\* after the spawn that began the iteration: it sleeps the remainder 1s - d,
\* so that the next spawn is one second after the previous one and not later.
C22_FloorSleepsTheRemainder ==
  \A t \in Tasks :
    task[t].pc = "floor_sleep" => task[t].wake <= task[t].start_time + Second

\* a Kill has been accepted into task t's inbox and is not yet consumed
KillPending(t) == \E i \in 1..Len(inbox[t]) : inbox[t][i].kind = "Kill"

\* C23, in the state "repeated spawn failure": nothing bounds the number of
\* failed spawns, so a Kill that is to be consumed eventually must be consumed
\* within the failure loop; a task with a Kill in its inbox does not go through
\* a failed spawn into the retry sleep with the Kill still unconsumed.
C23_KillConsumedInFailureLoop ==
  [][\A t \in Tasks :
       KillPending(t) =>
         ~( /\ ev'.t = t /\ ev'.act = "spawn_fail"
            /\ task'[t].pc = "retry_sleep"
            /\ KillPending(t)' )]_vars

\* C24: a task consumes a control message only in its select, and it enters
\* the select only by a completed set_running that leaves the entry Running
\* with the pid of the child it has just spawned; between the spawn and
\* set_running it takes nothing out of its inbox.
C24_RunningBeforeSelect ==
  [][\A t \in Tasks :
       LET n == task[t].name IN
       /\ (ev'.t = t /\ ev'.act \in {"restart", "kill"}) =>
            /\ task[t].pc = "select"
            /\ task[t].pid # 0 /\ os[task[t].pid].owner = t
            /\ hist[n].set_running >= 1
       /\ (task'[t].pc = "select" /\ task[t].pc # "select") =>
            /\ task[t].pc = "spawned"
            /\ ev'.t = t /\ ev'.call = "set_running"
            /\ reg'[n].state = Running
            /\ reg'[n].pid = task'[t].pid
            /\ os[task'[t].pid].owner = t
            /\ inbox'[t] = inbox[t]
       /\ (task[t].pc = "spawned" /\ task'[t].pc = "spawned") =>
            Len(inbox'[t]) >= Len(inbox[t])]_vars

\* a task has just consumed a Restart that was already in its inbox when it
\* spawned the child: the entry went through Running with that child's pid
\* first, and is now Stopped with it
C24_Witness ==
  \E t \in Tasks :
    /\ ev.t = t /\ ev.act = "restart" /\ ev.call = "set_state"
    /\ reg[task[t].name].state = Stopped
    /\ reg[task[t].name].pid # 0
    /\ os[reg[task[t].name].pid].owner = t
    /\ task[t].start_time = now

\* the entry is Running and its child is alive, but the executable on disk is
\* no longer the one the child was started from
Outdated(n) ==
  /\ reg[n].state = Running
  /\ reg[n].pid # 0
  /\ os[reg[n].pid].st = "alive"
  /\ n \in DOMAIN mtime
  /\ mtime[n] # NoMtime
  /\ os[reg[n].pid].binary # mtime[n]

\* C28: a watcher sweep that finds an enabled entry Running on an outdated
\* binary, with its supervisor there and room in the inbox, leaves a Restart
\* in that inbox (a change that a sweep passes over is passed over by every
\* later sweep too, since nothing else changes last_modified).
C28_SweepNoticesOutdatedBinary ==
  [][(ev'.act = "watch" /\ ~poisoned) =>
       \A n \in DOMAIN reg :
         LET t == reg[n].control_tx IN
         ( /\ Outdated(n)
           /\ cfg[n].enable
           /\ ~Closed(t)
           /\ Len(inbox[t]) < Capacity )
           => \E i \in 1..Len(inbox'[t]) : inbox'[t][i].kind = "Restart"]_vars

\* C27: a register_process for a name that is already in the Registry changes
\* the control sender of that entry and nothing else: every other field of
\* the entry, every other entry and the set of names are as before, and so
\* are the configuration and the executable's path.
C27_ReRegisterReplacesSenderOnly ==
  [][\A n \in DOMAIN reg :
       (ev'.call = "register_process" /\ ev'.name = n) =>
          /\ reg' = [reg EXCEPT ![n].control_tx = ev'.t]
          /\ DOMAIN reg' = DOMAIN reg
          /\ cfg' = cfg
          /\ mtime' = mtime]_vars

\* a second supervisor task has just registered on an entry that has run (it
\* has a pid, a start time and a start count) and whose executable has changed
\* since: the entry has the new sender and its old last_modified
C27_Witness ==
  \E n \in DOMAIN reg :
    /\ ev.call = "register_process" /\ ev.name = n
    /\ reg[n].control_tx = 2
    /\ reg[n].pid # 0
    /\ reg[n].start_time # NoTime
    /\ reg[n].start_count >= 1
    /\ reg[n].last_modified # get_cmd_mtime(n)

\* the failures recorded for a client within the last FAILURE_WINDOW
RecentFailures(ip) ==
  IF ip \in DOMAIN auth.failed
  THEN Cardinality({ i \in 1..Len(auth.failed[ip]) :
                       now - auth.failed[ip][i] <= FAILURE_WINDOW })
  ELSE 0

\* C25: with a username configured, a request that enters basic_auth from a
\* client with MAX_FAILURES (10) or more failures recorded within the last
\* FAILURE_WINDOW (120 s) is answered 403 there and then, whatever its
\* credentials: it is not passed on, nothing is recorded for it, and no
\* handler runs; and a client with fewer recorded failures is not refused.
C25_BannedClientForbidden ==
  [][\A ip \in IPs :
       (auth.configured /\ ev'.act = "basic_auth_enter" /\ ev'.name = ip) =>
          IF RecentFailures(ip) >= MAX_FAILURES
          THEN /\ ev'.st = "403"
               /\ auth'.reqs = auth.reqs
               /\ RecentFailures(ip)' = RecentFailures(ip)
          ELSE /\ ev'.st = ""
               /\ Len(auth'.reqs) = Len(auth.reqs) + 1]_vars

\* a request with the right credentials has just been answered 403: its
\* client has ten failures on record, the other client has one and is not
\* banned
C25_Witness ==
  /\ auth.configured
  /\ ev.act = "basic_auth_enter" /\ ev.call = "good" /\ ev.name = "x"
  /\ ev.st = "403"
  /\ RecentFailures("x") = MAX_FAILURES
  /\ RecentFailures("y") = 1

\* what the hour's file held when the logger started, and what was added
Before(h) == IF h \in DOMAIN plog.before THEN plog.before[h] ELSE << >>
Added(h) ==
  IF h \in DOMAIN plog.files
  THEN SubSeq(plog.files[h], Len(Before(h)) + 1, Len(plog.files[h]))
  ELSE << >>

\* what was added to the files of the hours h..MaxHour, in hour order
RECURSIVE AddedFrom(_)
AddedFrom(h) == IF h > MaxHour THEN << >> ELSE Added(h) \o AddedFrom(h + 1)

\* the bytes read that were handled in hour h, in the order read
ReadIn(h) ==
  LET idx == SelectSeq([i \in 1..Len(plog.read) |-> i], LAMBDA i : plog.at[i] = h)
  IN [k \in 1..Len(idx) |-> plog.read[idx[k]]]

C29_LoggerErrorsStayInside ==
  [][(ev'.act = "pipe_logger") =>
       /\ plog'.pc = "ended" <=> plog'.last.read \in {"eof", "err"}
       /\ plog'.last.read = "ok" => plog'.pc = "run"
       /\ plog'.last.mkdir = "err" =>
            /\ plog'.files = plog.files
            /\ plog'.file = plog.file
            /\ plog'.active_hour = plog.active_hour
            /\ plog'.dir = plog.dir
       /\ plog'.last.write = "err" => plog'.file = NoFile
       /\ (plog.file = NoFile /\ plog'.last.read = "ok" /\ plog'.last.mkdir # "err") =>
            /\ plog'.last.open \in {"ok", "err"}
            /\ plog'.last.open = "ok" =>
                 (plog'.last.write \in {"ok", "err"} /\ plog.hour \in DOMAIN plog'.files)
       /\ engine' = engine]_vars

\* three one-byte reads and then EOF: the first met a failed create_dir_all
\* and was skipped, the second a failed write that dropped the handle, and
\* the third re-opened the file and wrote its byte
C29_Witness ==
  /\ plog.pc = "ended" /\ plog.last.read = "eof"
  /\ plog.errs = 2
  /\ plog.read = << 1, 2, 3 >>
  /\ plog.files = [h \in {0} |-> << 3 >>]
  /\ plog.file = 0

\* C30: the command launched for a child has the argv get_cmd builds, that
\* is sandbox ++ [cmd] ++ args with the placeholder replaced in every token
\* by home (the current directory when home is empty), the first token being
\* the program executed: cmd with an empty sandbox, the sandbox's first token
\* otherwise.
C30_LaunchedArgv ==
  launch.command # NoCommand =>
    LET pc == launch.pcfg
        dir == IF pc.home # "" THEN pc.home ELSE CurrentDir
        all == pc.sandbox \o << pc.cmd >> \o pc.args
    IN /\ argv(launch.command) = [i \in 1..Len(all) |-> replace(all[i], dir)]
       /\ argv(launch.command) = argv(get_cmd(pc))
       /\ launch.command.program =
            replace(IF pc.sandbox = << >> THEN pc.cmd ELSE pc.sandbox[1], dir)

\* task t has registered and is in its loop: it has neither returned nor
\* panicked
Looping(t) == task[t].pc \notin {"init", "done", "panicked"}

\* C31: for every name at most one supervisor task is in its loop, and the
\* sender in the name's entry is that task's: no task in its loop is out of
\* reach of get_control.
C31_OneReachableSupervisor ==
  \A t \in Tasks :
    Looping(t) =>
      /\ \A u \in Tasks : (Looping(u) /\ task[u].name = task[t].name) => u = t
      /\ task[t].name \in DOMAIN reg
      /\ get_control(task[t].name) = t

\* a Kill that was accepted while task t was asleep between two generations
\* (the `next` cool-down, the respawn floor, the retry after a failed spawn)
\* is in its inbox
KillPendingBetweenGenerations(t) ==
  \E i \in 1..Len(inbox[t]) :
    /\ inbox[t][i].kind = "Kill"
    /\ inbox[t][i].sent_pc \in {"next_sleep", "floor_sleep", "retry_sleep"}

\* C32: a task with a Kill in its inbox that was accepted between two
\* generations starts no new child.
C32_KillBetweenGenerationsPreventsSpawn ==
  [][\A t \in Tasks :
       KillPendingBetweenGenerations(t) =>
         ~(ev'.t = t /\ ev'.act = "spawn_ok")]_vars

\* C33: a step in which a supervisor calls kill_process (the Restart, Kill and
\* max-run branches of the select) signals a child that the waiter thread has
\* not yet reaped.
C33_KillOnlyUnreapedChild ==
  [][\A t \in Tasks :
       (ev'.t = t /\ ev'.act \in {"restart", "kill", "max_run"}) =>
         /\ task[t].pid # 0
         /\ os[task[t].pid].st # "dead"]_vars

\* C34: when a name has one supervisor task, a Restart of the watcher that was
\* accepted while the present generation of the child was running, and that
\* this generation consumes, was decided on this generation's entry: the pid
\* the watcher saw is the pid of the child that the Restart terminates.
C34_WatcherRestartHitsObservedGeneration ==
  [][\A t \in Tasks :
       ( /\ ev'.t = t /\ ev'.act = "restart"
         /\ \A u \in Tasks : task[u].name = task[t].name => u = t
         /\ Head(inbox[t]).seen # 0
         /\ Head(inbox[t]).sent_gen = task[t].gen ) =>
         Head(inbox[t]).seen = task[t].pid]_vars

\* every supervisor task that was started for n has returned
Returned(n) ==
  \A t \in Tasks : task[t].name = n => task[t].pc = "done"

\* C35: an entry that is Stopping while its supervisor has returned leaves
\* Stopping.
C35_StoppingIsTransient ==
  \A n \in Names :
    (n \in DOMAIN reg /\ reg[n].state = Stopping /\ Returned(n))
      ~> ~(n \in DOMAIN reg /\ reg[n].state = Stopping)

\* C36: an HTTP restart, kill or start request for a name that has no entry,
\* made while the Registry can be locked, runs to its answer: the handler does
\* not panic, the Registry can still be locked afterwards and no entry has
\* changed.
C36_UnknownNameAnswered ==
  [][( /\ ev'.act \in {"http", "http_start"}
       /\ ev'.name \notin DOMAIN reg
       /\ CanLock ) =>
       /\ ev'.call # "panic"
       /\ ~poisoned'
       /\ reg' = reg]_vars

\* C37: for every client, the requests answered 401 within the last
\* FAILURE_WINDOW (each is one failure on record) are at most MAX_FAILURES.
C37_AtMostMaxFailuresEvaluated ==
  \A ip \in IPs : RecentFailures(ip) <= MAX_FAILURES

====
